---- MODULE Spec2Model ----
(***************************************************************************)
(* Model of regexp-util (src/src/index.ts): execAll, groups and named.     *)
(*                                                                         *)
(* A regexp/target pair is represented by what RegExp.prototype.exec can   *)
(* observe of it: for every start position s of the target, whether the    *)
(* pattern matches at s and where that match ends (matchAt), plus the      *)
(* regexp's global flag and its mutable lastIndex.  Regexps carrying the   *)
(* sticky flag are not modelled.                                           *)
(***************************************************************************)
EXTENDS Integers, Sequences, FiniteSets, TLC

\* Length of the target string.
TargetLen == 2
\* Number of generators created over the one regexp instance.
NumGens == 2
\* Successful searches in a row before the model stops pulling (only reached
\* when the searches would succeed forever: non-empty matches in a row number
\* at most TargetLen).
MaxRun == TargetLen + 1

\* Capture groups of the pattern handed to String.prototype.replace.
MaxCaptures == 2
\* Largest match offset handed to a replacer.
MaxOffset == 1

Gens == 1..NumGens
Positions == 0..TargetLen
NoMatch == -1
\* The strings matched, captured and returned.
Strs == {"a", "b"}
\* Names capture groups may carry; "0" and "2" are numeric names.
GroupNames == {"0", "2", "year"}
\* Names of the groups of the patterns whose results are given to groups().
ResultNames == {"year", "month"}

VARIABLES
  matchAt,     \* matchAt[s]: end of the match starting at s, or NoMatch
  global,      \* regexp.global
  lastIndex,   \* regexp.lastIndex
  pc,          \* per generator: "none" | "start" | "yielded" | "done"
  out,         \* per generator: the results it has yielded, in order
  lastPull,    \* the most recent next() call: who was pulled, what it returned
  execCalls,   \* number of regexp.exec invocations
  clean,       \* per generator: first pulled at lastIndex 0, and no other
               \* generator has searched while it was suspended at its yield
  sinceFail,   \* results yielded (by anyone) since the last failed search
  call,        \* the match String.prototype.replace reports to the wrapper
  wrapper,     \* outcome of the namedCapturesWrapper invocation
  result,      \* the argument given to groups()
  accessor     \* outcome of the groups() call

execVars == <<matchAt, global, lastIndex, pc, out, lastPull, execCalls, clean,
              sinceFail>>
namedVars == <<call, wrapper>>
groupsVars == <<result, accessor>>
vars == <<execVars, namedVars, groupsVars>>

\* The regexp/target pairs: a match starting at s ends at or after s.
MatchFns == {f \in [Positions -> NoMatch..TargetLen] :
               \A s \in Positions : f[s] = NoMatch \/ f[s] >= s}

Null == [index |-> NoMatch, end |-> NoMatch]

\* RegExpExec with the reset of lastIndex after a failed search left out.
RegExpExec_NoReset(li) ==
  LET from == IF global THEN li ELSE 0
      hits == {s \in Positions : s >= from /\ matchAt[s] # NoMatch}
  IN IF hits = {}
       THEN [result |-> Null, lastIndex |-> li]
       ELSE LET s == CHOOSE x \in hits : \A y \in hits : x <= y
            IN [result |-> [index |-> s, end |-> matchAt[s]],
                lastIndex |-> IF global THEN matchAt[s] ELSE li]

\* RegExpExec with a global search that always starts from 0.
RegExpExec_FromZero(li) ==
  LET hits == {s \in Positions : matchAt[s] # NoMatch}
  IN IF hits = {}
       THEN [result |-> Null, lastIndex |-> IF global THEN 0 ELSE li]
       ELSE LET s == CHOOSE x \in hits : \A y \in hits : x <= y
            IN [result |-> [index |-> s, end |-> matchAt[s]],
                lastIndex |-> IF global THEN matchAt[s] ELSE li]

\* regexp.exec(target), as ECMAScript defines it (RegExpBuiltinExec): the
\* result and the lastIndex it leaves behind.
\* A global regexp searches from lastIndex, stores the end of the match on
\* success and 0 on failure; a non-global one searches from 0 and leaves
\* lastIndex alone.
RegExpExec(li) ==
  LET from == IF global THEN li ELSE 0
      hits == {s \in Positions : s >= from /\ matchAt[s] # NoMatch}
  IN IF hits = {}
       THEN [result |-> Null, lastIndex |-> IF global THEN 0 ELSE li]
       ELSE LET s == CHOOSE x \in hits : \A y \in hits : x <= y
            IN [result |-> [index |-> s, end |-> matchAt[s]],
                lastIndex |-> IF global THEN matchAt[s] ELSE li]

\* StopAfterYield with the test of the global flag left out.
StopAfterYield_Never == FALSE

\* `if (!regexp.global) return` after the yield.
StopAfterYield == ~global

\* Resumable for a generator whose body restarts after it has returned.
Resumable_Always(p) == p \in {"start", "yielded", "done"}

\* A finished generator's body is never resumed.
Resumable(p) == p \in {"start", "yielded"}

\* The IteratorResult of a next() call on g; late tells that the generator had
\* already finished before the call.
IterDone(g, late) == [gen |-> g, done |-> TRUE, value |-> Null, late |-> late]
IterValue(g, r) == [gen |-> g, done |-> FALSE, value |-> r, late |-> FALSE]

\* execAll(regexp, target): creates the generator object; the body does not run.
Create(g) ==
  /\ pc[g] = "none"
  /\ pc' = [pc EXCEPT ![g] = "start"]
  /\ UNCHANGED <<matchAt, global, lastIndex, out, lastPull, execCalls, clean,
                 sinceFail>>
  /\ UNCHANGED <<namedVars, groupsVars>>

\* One next() call on generator g: runs the body up to the next yield or return.
Pull(g) ==
  /\ pc[g] # "none"
  /\ UNCHANGED <<matchAt, global, namedVars, groupsVars>>
  /\ IF ~Resumable(pc[g])
       THEN /\ lastPull' = IterDone(g, TRUE)
            /\ UNCHANGED <<lastIndex, pc, out, execCalls, clean, sinceFail>>
       ELSE IF pc[g] = "yielded" /\ StopAfterYield
         THEN /\ pc' = [pc EXCEPT ![g] = "done"]
              /\ lastPull' = IterDone(g, FALSE)
              /\ UNCHANGED <<lastIndex, out, execCalls, clean, sinceFail>>
         ELSE LET r == RegExpExec(lastIndex) IN
              /\ sinceFail < MaxRun
              /\ lastIndex' = r.lastIndex
              /\ execCalls' = execCalls + 1
              /\ clean' = [h \in Gens |->
                             IF h = g
                               THEN IF pc[g] = "start" THEN lastIndex = 0
                                                       ELSE clean[g]
                               ELSE clean[h] /\ pc[h] # "yielded"]
              /\ IF r.result = Null
                   THEN /\ pc' = [pc EXCEPT ![g] = "done"]
                        /\ lastPull' = IterDone(g, FALSE)
                        /\ sinceFail' = 0
                        /\ UNCHANGED out
                   ELSE /\ pc' = [pc EXCEPT ![g] = "yielded"]
                        /\ out' = [out EXCEPT ![g] = Append(@, r.result)]
                        /\ lastPull' = IterValue(g, r.result)
                        /\ sinceFail' = sinceFail + 1


(***************************************************************************)
(* JavaScript values, tagged with what typeof reports.                     *)
(***************************************************************************)
EmptyObj == [k \in {} |-> 0]
Str(s) == [t |-> "string", s |-> s, n |-> 0, o |-> EmptyObj]
Num(n) == [t |-> "number", s |-> "", n |-> n, o |-> EmptyObj]
Obj(o) == [t |-> "object", s |-> "", n |-> 0, o |-> o]
Undefined == [t |-> "undefined", s |-> "", n |-> 0, o |-> EmptyObj]
JSNull == [t |-> "null", s |-> "", n |-> 0, o |-> EmptyObj]
TypeOf(v) == v.t

\* What a capture group holds: a string, or undefined when it did not take part.
CaptureValues == {Str(s) : s \in Strs} \cup {Undefined}

(***************************************************************************)
(* named(replacer): the namedCapturesWrapper it returns.                   *)
(***************************************************************************)
Digits == <<"0", "1", "2", "3", "4", "5", "6", "7", "8", "9">>
\* The property key of array index i, as defineProperty and `in` see it.
IndexKey(i) == Digits[i + 1]

\* args.slice(0, -tail)
Slice(args, tail) == SubSeq(args, 1, Len(args) - tail)

\* Object.defineProperty(obj, key, { configurable, writable, value })
DefineProperty(obj, key, value) ==
  [k \in DOMAIN obj \cup {key} |-> IF k = key THEN value ELSE obj[k]]

\* In with the collision test never finding the key.
In_Never(key, obj) == FALSE

\* `index in captures`
In(key, obj) == key \in DOMAIN obj

\* Object.assign(captures, named) on the freshly created, empty captures.
Assign(captures, named) ==
  [k \in DOMAIN captures \cup DOMAIN named |->
     IF k \in DOMAIN named THEN named[k] ELSE captures[k]]

\* values.forEach((value, index) => ...), from `index` on.  With `checked`
\* the callback first tests `index in captures` and throws when it holds.
RECURSIVE ForEachDefine(_, _, _, _)
ForEachDefine(captures, values, index, checked) ==
  IF index >= Len(values)
    THEN [threw |-> FALSE, captures |-> captures]
    ELSE IF checked /\ In(IndexKey(index), captures)
      THEN [threw |-> TRUE, captures |-> captures]
      ELSE ForEachDefine(
             DefineProperty(captures, IndexKey(index), values[index + 1]),
             values, index + 1, checked)

\* NamedCaptures slicing as if no named-captures object were at the end.
NamedCaptures_OffByOne(args) == Slice(args, 2)
\* NamedIndex reading the offset one place too far to the right.
NamedIndex_OffByOne(args) == args[Len(args) - 1]

\* The numbered captures when the last argument is the original string.
PlainCaptures(args) == Slice(args, 2)
\* The numbered captures when the last argument is the named-captures object.
NamedCaptures(args) == Slice(args, 3)
\* The match offset in either shape: args[length - 2], args[length - 3].
PlainIndex(args) == args[Len(args) - 1]
NamedIndex(args) == args[Len(args) - 2]
\* The original string when a named-captures object follows it.
NamedOriginal(args) == args[Len(args) - 1]

IdleWrapper ==
  [state |-> "idle", ret |-> Undefined, replCalls |-> 0, replRet |-> Undefined,
   captures |-> EmptyObj, index |-> Undefined, original |-> Undefined]

\* replacer(captures, index, original), returning ret.
CallReplacer(captures, index, original, ret) ==
  [state |-> "returned", ret |-> ret, replCalls |-> 1, replRet |-> ret,
   captures |-> captures, index |-> index, original |-> original]

\* namedCapturesWrapper(...args), the replacer answering ret when called.
NamedCapturesWrapper(args, ret) ==
  LET length == Len(args)
      named == args[length]
  IN IF TypeOf(named) = "string"
       THEN LET plain == ForEachDefine(EmptyObj, PlainCaptures(args), 0, FALSE)
            IN CallReplacer(plain.captures, PlainIndex(args), named, ret)
       ELSE LET copied == ForEachDefine(Assign(EmptyObj, named.o),
                                        NamedCaptures(args), 0, TRUE)
            IN IF copied.threw
                 THEN [IdleWrapper EXCEPT !.state = "threw"]
                 ELSE CallReplacer(copied.captures, NamedIndex(args),
                                   NamedOriginal(args), ret)

\* The arguments String.prototype.replace hands to its replacer function for
\* the match c: the match, the captures, the offset, the original string and,
\* when the pattern names groups, the object of the named captures.
ReplaceArgs(c) ==
  <<Str(c.match)>> \o c.caps \o <<Num(c.offset), Str(c.original)>>
    \o (IF DOMAIN c.naming = {}
          THEN <<>>
          ELSE <<Obj([nm \in DOMAIN c.naming |-> c.caps[c.naming[nm]]])>>)

\* The ways of naming some of the m groups: each name is carried by one group.
Namings(m) ==
  {f \in UNION {[D -> 1..m] : D \in SUBSET GroupNames} :
     \A x, y \in DOMAIN f : f[x] = f[y] => x = y}

Calls ==
  UNION {[match : Strs, caps : [1..m -> CaptureValues], offset : 0..MaxOffset,
          original : Strs, naming : Namings(m)] : m \in 0..MaxCaptures}

IdleCall ==
  [match |-> "a", caps |-> <<>>, offset |-> 0, original |-> "a",
   naming |-> EmptyObj]

\* String.prototype.replace invokes the wrapper for the match.
Invoke ==
  /\ wrapper.state = "idle"
  /\ \E ret \in Strs : wrapper' = NamedCapturesWrapper(ReplaceArgs(call), Str(ret))
  /\ UNCHANGED <<call, execVars, groupsVars>>

(***************************************************************************)
(* groups(result)                                                          *)
(***************************************************************************)
NullResult == [isNull |-> TRUE, match |-> "", index |-> 0, groups |-> Undefined]

\* The named-captures objects of match results.
GroupObjects ==
  UNION {[D -> CaptureValues] : D \in (SUBSET ResultNames) \ {{}}}

\* What RegExp.prototype.exec and String.prototype.match return.
Results ==
  {NullResult} \cup
  [isNull : {FALSE}, match : Strs, index : 0..MaxOffset,
   groups : {Undefined} \cup {Obj(o) : o \in GroupObjects}]

\* IsNull with the null test left out.
IsNull_Never(r) == FALSE
\* GroupsMissing with the undefined test left out.
GroupsMissing_Never(r) == FALSE

\* `result === null`
IsNull(r) == r.isNull
\* `result.groups === undefined`
GroupsMissing(r) == TypeOf(r.groups) = "undefined"

IdleAccessor == [state |-> "idle", value |-> Undefined]

\* groups(result)
Groups(r) ==
  IF IsNull(r)
    THEN [state |-> "returned", value |-> JSNull]
    ELSE IF GroupsMissing(r)
      THEN [state |-> "threw", value |-> Undefined]
      ELSE [state |-> "returned", value |-> r.groups]

CallGroups ==
  /\ accessor.state = "idle"
  /\ accessor' = Groups(result)
  /\ UNCHANGED <<result, execVars, namedVars>>

(***************************************************************************)
(* Specifications                                                          *)
(***************************************************************************)
ExecInit ==
  /\ matchAt \in MatchFns
  /\ global \in BOOLEAN
  /\ lastIndex = 0
  /\ pc = [g \in Gens |-> "none"]
  /\ out = [g \in Gens |-> <<>>]
  /\ lastPull = [gen |-> 0, done |-> TRUE, value |-> Null, late |-> FALSE]
  /\ execCalls = 0
  /\ clean = [g \in Gens |-> FALSE]
  /\ sinceFail = 0

NamedIdle == call = IdleCall /\ wrapper = IdleWrapper
GroupsIdle == result = NullResult /\ accessor = IdleAccessor

\* execAll: any regexp/target pair, the regexp fresh (lastIndex 0).
Init == ExecInit /\ NamedIdle /\ GroupsIdle
Next == \E g \in Gens : Create(g) \/ Pull(g)
Spec == Init /\ [][Next]_vars

\* execAll over the pairs in which every match is non-empty.
NonEmptyMatches == \A s \in Positions : matchAt[s] # s
InitNonEmpty == Init /\ NonEmptyMatches
SpecNonEmpty == InitNonEmpty /\ [][Next]_vars

\* named: one invocation of the wrapper per behaviour.
InitNamed ==
  /\ ExecInit /\ matchAt = [s \in Positions |-> NoMatch] /\ global = FALSE
  /\ call \in Calls /\ wrapper = IdleWrapper
  /\ GroupsIdle
NextNamed == Invoke
SpecNamed == InitNamed /\ [][NextNamed]_vars

\* groups: one call per behaviour.
InitGroups ==
  /\ ExecInit /\ matchAt = [s \in Positions |-> NoMatch] /\ global = FALSE
  /\ NamedIdle
  /\ result \in Results /\ accessor = IdleAccessor
NextGroups == CallGroups
SpecGroups == InitGroups /\ [][NextGroups]_vars

(***************************************************************************)
(* Properties                                                              *)
(***************************************************************************)
IsPrefix(a, b) == Len(a) <= Len(b) /\ a = SubSeq(b, 1, Len(a))

\* The occurrences of the pattern in the target from position pos on, as
\* String.prototype.match and matchAll count them: leftmost first, each search
\* resuming at the end of the previous match, one further after an empty one.
RECURSIVE OccurrencesFrom(_)
OccurrencesFrom(pos) ==
  LET hits == {s \in Positions : s >= pos /\ matchAt[s] # NoMatch}
  IN IF hits = {}
       THEN <<>>
       ELSE LET s == CHOOSE x \in hits : \A y \in hits : x <= y
                e == matchAt[s]
            IN <<[index |-> s, end |-> e]>>
                 \o OccurrencesFrom(IF e = s THEN e + 1 ELSE e)
Occurrences == OccurrencesFrom(0)

\* The step is a next() call on g that changes something (a creation changes
\* the pc of another generator only).
PulledBy(g) ==
  /\ lastPull'.gen = g
  /\ <<lastPull, lastIndex, execCalls, out, pc[g]>>'
       # <<lastPull, lastIndex, execCalls, out, pc[g]>>

\* C1: a generator over a global regexp yields the occurrences of the target
\* in left-to-right order and nothing else, and has yielded all k of them when
\* it reports the sequence finished.
C1_GlobalYieldsEveryOccurrence ==
  global => \A g \in Gens :
    /\ IsPrefix(out[g], Occurrences)
    /\ pc[g] = "done" => out[g] = Occurrences

\* C2: over a non-global regexp and a target with at least one occurrence, a
\* generator yields the first occurrence on its first pull and nothing more,
\* and the pull after that result reports the sequence finished.
C2_NonGlobalYieldsFirstOnly ==
  /\ [](~global /\ Occurrences # <<>> =>
          \A g \in Gens :
            /\ pc[g] \in {"none", "start"} => out[g] = <<>>
            /\ pc[g] \in {"yielded", "done"} => out[g] = <<Occurrences[1]>>)
  /\ [][~global =>
          \A g \in Gens :
            pc[g] = "yielded" /\ PulledBy(g) =>
              pc'[g] = "done" /\ lastPull'.done /\ out'[g] = out[g]]_vars

\* C2 witness: a non-global generator has finished with one result although
\* the target holds further occurrences.
C2_Witness ==
  /\ ~global /\ Len(Occurrences) >= 2
  /\ \E g \in Gens : pc[g] = "done" /\ Len(out[g]) = 1 /\ lastPull.gen = g

\* A group name is the key of one of the numbered captures 0..M.
Collides(c) ==
  \E nm \in DOMAIN c.naming : \E i \in 0..Len(c.caps) : nm = IndexKey(i)

\* C3: when no name collides with a positional index, the captures handed to
\* the replacer hold the full match under 0, the numbered captures under
\* 1..M in order, every named capture under its name with the value of the
\* group it names, and no other key.
C3_CaptureObjectShape ==
  wrapper.state # "idle" /\ ~Collides(call) =>
    /\ wrapper.state = "returned"
    /\ wrapper.replCalls = 1
    /\ DOMAIN wrapper.captures =
         {IndexKey(i) : i \in 0..Len(call.caps)} \cup DOMAIN call.naming
    /\ wrapper.captures["0"] = Str(call.match)
    /\ \A i \in 1..Len(call.caps) : wrapper.captures[IndexKey(i)] = call.caps[i]
    /\ \A nm \in DOMAIN call.naming :
         wrapper.captures[nm] = call.caps[call.naming[nm]]

\* C3 witness: the replacer was called for a pattern with two groups, one of
\* them named.
C3_Witness ==
  /\ wrapper.state = "returned"
  /\ Len(call.caps) >= 2
  /\ DOMAIN call.naming # {}
  /\ Cardinality(DOMAIN wrapper.captures) >= 4

\* C4: when a group name is the decimal form of a positional index 0..M, the
\* wrapper throws, returns nothing and does not call the replacer.
C4_CollisionThrows ==
  wrapper.state # "idle" /\ Collides(call) =>
    /\ wrapper.state = "threw"
    /\ wrapper.replCalls = 0
    /\ wrapper.ret = Undefined

\* C4 witness: the wrapper threw for a group named "2" in a pattern with two
\* groups.
C4_Witness ==
  /\ wrapper.state = "threw"
  /\ "2" \in DOMAIN call.naming /\ "0" \notin DOMAIN call.naming

\* The replacer was called once with the offset and the original string, and
\* the wrapper returned what it answered.
Forwarded ==
  /\ wrapper.state = "returned"
  /\ wrapper.replCalls = 1
  /\ wrapper.index = Num(call.offset)
  /\ wrapper.original = Str(call.original)
  /\ wrapper.ret = wrapper.replRet

\* C5 as stated: in both argument shapes every invocation calls the replacer
\* once with offset and original string and returns its result.
C5_EveryInvocationForwards == wrapper.state # "idle" => Forwarded

\* C5 amended: in both argument shapes every invocation without a name
\* collision calls the replacer once with offset and original string and
\* returns its result.
C5_ForwardsUnlessCollision ==
  wrapper.state # "idle" /\ ~Collides(call) => Forwarded

\* C5 witness: the replacer's answer came back from an invocation that ended
\* with the named-captures object, at a non-zero offset.
C5_Witness ==
  /\ Forwarded
  /\ DOMAIN call.naming # {}
  /\ call.offset > 0

\* C6: groups() of a match result without a named-captures object throws; it
\* returns neither null nor a mapping.
C6_MissingGroupsThrows ==
  accessor.state # "idle" /\ ~result.isNull /\ result.groups = Undefined =>
    accessor.state = "threw" /\ accessor.value = Undefined

\* C6 witness: groups() threw.
C6_Witness == accessor.state = "threw" /\ ~result.isNull

\* C7: groups() of null returns null, groups() of a result with a
\* named-captures object returns that object, and neither call throws nor
\* changes the result.
C7_ReturnsNullOrMapping ==
  /\ [](accessor.state # "idle" =>
          /\ result.isNull =>
               accessor.state = "returned" /\ accessor.value = JSNull
          /\ ~result.isNull /\ TypeOf(result.groups) = "object" =>
               accessor.state = "returned" /\ accessor.value = result.groups)
  /\ [][result' = result]_vars

\* C7 witness: groups() returned a mapping in which one group did not take
\* part.
C7_Witness ==
  /\ accessor.state = "returned"
  /\ TypeOf(accessor.value) = "object"
  /\ \E nm \in DOMAIN accessor.value.o : accessor.value.o[nm] = Undefined

\* The generator's state machine: Ready ("start"), Yielding ("yielded"),
\* Exhausted ("done").
Transitions ==
  {<<"none", "none">>, <<"none", "start">>, <<"start", "start">>,
   <<"start", "yielded">>, <<"start", "done">>, <<"yielded", "yielded">>,
   <<"yielded", "done">>, <<"done", "done">>}

\* C8: a generator moves Ready -> Yielding -> Exhausted only, and once it is
\* Exhausted it stays so: a pull on it reports done without a value, does not
\* call exec and leaves lastIndex where it was.
C8_ExhaustedIsTerminal ==
  [][\A g \in Gens :
       /\ <<pc[g], pc'[g]>> \in Transitions
       /\ pc[g] = "done" =>
            /\ pc'[g] = "done"
            /\ out'[g] = out[g]
            /\ PulledBy(g) =>
                 /\ lastPull'.done /\ lastPull'.value = Null
                 /\ execCalls' = execCalls
                 /\ lastIndex' = lastIndex]_vars

\* C8 witness: a generator that yielded results was pulled again after it had
\* finished, with lastIndex away from 0.
C8_Witness ==
  \E g \in Gens :
    /\ pc[g] = "done" /\ out[g] # <<>>
    /\ lastPull.gen = g /\ lastPull.late
    /\ lastIndex # 0

\* C9: for a global regexp, lastIndex is 0 right after the pull that exhausts
\* a generator, is the end of the last yielded match right after a pull that
\* yields, and is changed by no creation of a generator; hence two generators
\* that each start at lastIndex 0 and run to exhaustion undisturbed yield the
\* same sequence.
C9_SearchPosition ==
  global =>
    /\ lastPull.gen = 0 => lastIndex = 0
    /\ lastPull.gen \in Gens /\ lastPull.done /\ ~lastPull.late => lastIndex = 0
    /\ lastPull.gen \in Gens /\ ~lastPull.done => lastIndex = lastPull.value.end
    /\ \A g, h \in Gens :
         pc[g] = "done" /\ clean[g] /\ pc[h] = "done" /\ clean[h] =>
           out[g] = out[h]

\* C9 witness: a second generator, created while the first one was suspended
\* and pulled after the first one was exhausted, has yielded the same two
\* matches again.
C9_Witness ==
  /\ global
  /\ \E g, h \in Gens :
       /\ g # h
       /\ pc[g] = "done" /\ clean[g] /\ pc[h] = "done" /\ clean[h]
       /\ Len(out[h]) >= 2

\* C10: with non-empty matches only, every generator that keeps being pulled
\* is eventually exhausted however the pulls interleave; on a global regexp at
\* most k results are yielded between two failed searches, and a failed
\* search exhausts exactly one generator.
C10_InterleavedPullsTerminate ==
  /\ \A g \in Gens :
       WF_vars(Pull(g)) => [](pc[g] \in {"start", "yielded"} => <>(pc[g] = "done"))
  /\ [](global => sinceFail <= Len(Occurrences))
  /\ [][execCalls' # execCalls /\ lastPull'.done =>
          Cardinality({g \in Gens : pc[g] # "done" /\ pc'[g] = "done"}) = 1]_vars

\* C10 witness: two generators over a global regexp whose pulls interleaved
\* have both yielded results and are both exhausted.
C10_Witness ==
  /\ global
  /\ \E g, h \in Gens :
       /\ g # h
       /\ pc[g] = "done" /\ pc[h] = "done"
       /\ ~clean[g]
       /\ out[g] # <<>> /\ out[h] # <<>>

====
